---- MODULE Spec2Model ----
(***************************************************************************)
(* Task Manager: delayed PENDING -> DONE transition of tasks.              *)
(*                                                                         *)
(* The store is the "tasks" table; the queue is the Celery broker; the     *)
(* serving process is the FastAPI application (lifespan + routers); the    *)
(* worker process runs update_task_status_task and, when it becomes ready  *)
(* (or beat initialises), the sweep schedule_due_tasks.                    *)
(* In Spec every handler is one atomic action: it runs inside one database *)
(* session and ends with its commit; instants are UTC. FaultSpec adds the  *)
(* handlers meeting an unreachable broker. StoreSpec keeps the rows as the *)
(* store gives them back (due dates with or without zone, updated_at), and *)
(* RaceSpec splits the transition into its load and its commit.            *)
(* StoreFaultSpec adds the transition and the catch-up meeting a failing   *)
(* store, and HandleSpec splits the operations of the worker into entering *)
(* and leaving get_celery_async_session_context. PersistSpec splits the    *)
(* create and update requests into the commit of the service and the       *)
(* submission of the route.                                                *)
(***************************************************************************)
EXTENDS Integers, FiniteSets, Sequences, TLC

\* ------------------------------------------------------------------ bounds
\* Wall-clock instants are 0..MaxTime.
MaxTime == 1
\* At most MaxTasks rows are ever inserted (ids 1..MaxTasks, never reused).
MaxTasks == 2
\* At most MaxQueue messages are held by the broker at one time.
MaxQueue == 2
\* At most MaxWrites create, update and delete requests are served.
MaxWrites == 2
\* The zones of a datetime, and of a process, are UTC..UTC+MaxOffset.
MaxOffset == 1
\* At most MaxCalls transitions run in the worker pool, and at most MaxCalls
\* requests are between their commit and their submission, at one time.
MaxCalls == 1

Times == 0..MaxTime
Ids == 1..MaxTasks

\* ------------------------------------------------------------ TaskStatus
PENDING == "pending"
DONE == "done"
TaskStatus == {PENDING, DONE}

\* A field of TaskUpdate the request did not set (exclude_unset drops it).
UnsetStatus == "unset"
UnsetDueDate == -2

\* A message sent with .delay(): no eta, ready as soon as it is in the broker
\* (earlier than every instant of an eta).
NoEta == -100

\* The results of _update_task_status.
NotFound == "error: task not found"
UpdatedToDone == "success: status updated to DONE"
NotYetReached == "success: due date not yet reached"

\* pre-state of a row as a handler found it
Absent == "absent"

VARIABLES
    tasks,      \* the tasks table: id -> [due_date, status], for the rows that exist
    nextId,     \* the next value of the autoincrement primary key
    now,        \* the wall clock (UTC)
    queue,      \* the broker: set of messages [id, eta] for update_task_status
    workerUp,   \* a Celery worker is running
    serving,    \* the FastAPI application has finished start-up and takes requests
    ret,        \* what the last handler did: its name, argument, and result
    writes,     \* the number of create, update and delete requests served so far
    caughtUp,   \* history: the tasks whose due date had passed at the start-up
                \* catch-up of the running serving process, and that no client
                \* request has written since
    running     \* the calls of _update_task_status that have loaded their row and
                \* have not committed yet: [id, eta, task]

vars == <<tasks, nextId, now, queue, workerUp, serving, ret, writes, caughtUp, running>>

\* The record of a handler call.
\*   op        the handler
\*   id        the task id it was called with (0: none)
\*   pre       update_task_status: the status of the row before the call, or Absent
\*   outcome   its result (a result string of _update_task_status, an HTTP code, ...)
\*   committed db.commit() was called
\*   rows      the ids of the rows it selected or returned
\*   count     the number it returned or logged
\*   eta       the eta of the message it submitted or consumed (NoEta: none)
Ret(op, id, pre, outcome, committed, rows, count, eta) ==
    [op |-> op, id |-> id, pre |-> pre, outcome |-> outcome,
     committed |-> committed, rows |-> rows, count |-> count, eta |-> eta]

\* what a step of the environment (clock, process stop, message loss) leaves in ret
Env == Ret("env", 0, Absent, "", FALSE, {}, 0, NoEta)

PreOf(ts, id) == IF id \in DOMAIN ts THEN ts[id].status ELSE Absent

\* ------------------------------------------------------------ TaskService
\* get_task: the row, looked up by primary key
HasTask(ts, id) == id \in DOMAIN ts

\* a selection without the status filter
GetDueTasks_NoStatus(ts, t) ==
    {id \in DOMAIN ts : ts[id].due_date <= t}

\* a selection with < in place of <=
GetDueTasks_Strict(ts, t) ==
    {id \in DOMAIN ts : ts[id].status # DONE /\ ts[id].due_date < t}

\* a selection of the rows that fall due at this instant only
GetDueTasks_DueNow(ts, t) ==
    {id \in DOMAIN ts : ts[id].status # DONE /\ ts[id].due_date = t}

\* get_due_tasks: status != DONE and due_date <= now
GetDueTasks(ts, t) ==
    {id \in DOMAIN ts : ts[id].status # DONE /\ ts[id].due_date <= t}

\* a catch-up that selects with < in place of <=
MarkOverdueTasksDone_Strict(ts, t) ==
    LET overdue_tasks == {id \in DOMAIN ts : ts[id].status # DONE /\ ts[id].due_date < t}
    IN  [tasks |-> [id \in DOMAIN ts |->
                       IF id \in overdue_tasks
                       THEN [ts[id] EXCEPT !.status = DONE]
                       ELSE ts[id]],
         rows |-> overdue_tasks,
         committed |-> overdue_tasks # {},
         count |-> Cardinality(overdue_tasks)]

\* a catch-up that writes a status to every row: DONE if overdue, else PENDING
MarkOverdueTasksDone_Reset(ts, t) ==
    LET overdue_tasks == {id \in DOMAIN ts : ts[id].status # DONE /\ ts[id].due_date <= t}
    IN  [tasks |-> [id \in DOMAIN ts |->
                       [ts[id] EXCEPT !.status =
                           IF ts[id].due_date <= t THEN DONE ELSE PENDING]],
         rows |-> overdue_tasks,
         committed |-> overdue_tasks # {},
         count |-> Cardinality(overdue_tasks)]

\* a catch-up that returns the number of the rows whose due date has passed
MarkOverdueTasksDone_CountAll(ts, t) ==
    LET overdue_tasks == {id \in DOMAIN ts : ts[id].status # DONE /\ ts[id].due_date <= t}
    IN  [tasks |-> [id \in DOMAIN ts |->
                       IF id \in overdue_tasks
                       THEN [ts[id] EXCEPT !.status = DONE]
                       ELSE ts[id]],
         rows |-> overdue_tasks,
         committed |-> overdue_tasks # {},
         count |-> Cardinality({id \in DOMAIN ts : ts[id].due_date <= t})]

\* mark_overdue_tasks_done: the same selection, every selected row set to DONE
MarkOverdueTasksDone(ts, t) ==
    LET overdue_tasks == {id \in DOMAIN ts : ts[id].status # DONE /\ ts[id].due_date <= t}
    IN  [tasks |-> [id \in DOMAIN ts |->
                       IF id \in overdue_tasks
                       THEN [ts[id] EXCEPT !.status = DONE]
                       ELSE ts[id]],
         rows |-> overdue_tasks,
         committed |-> overdue_tasks # {},
         count |-> Cardinality(overdue_tasks)]

\* ------------------------------------------------------- workers/task.py
\* a comparison that fires one instant early
IsDue_Early(now_utc, task_due) == now_utc + 1 >= task_due

\* the comparison of _update_task_status
IsDue(now_utc, task_due) == now_utc >= task_due

\* a transition that flips the status of a row that is due
UpdateTaskStatus_Toggle(ts, task_id, t) ==
    IF ~HasTask(ts, task_id)
    THEN [tasks |-> ts, outcome |-> NotFound, committed |-> FALSE]
    ELSE IF IsDue(t, ts[task_id].due_date)
         THEN [tasks |-> [ts EXCEPT ![task_id].status =
                             IF @ = DONE THEN PENDING ELSE DONE],
               outcome |-> UpdatedToDone, committed |-> TRUE]
         ELSE [tasks |-> ts, outcome |-> NotYetReached, committed |-> FALSE]

\* a transition without the due-date test: a message that fires sets DONE
UpdateTaskStatus_Always(ts, task_id, t) ==
    IF ~HasTask(ts, task_id)
    THEN [tasks |-> ts, outcome |-> NotFound, committed |-> FALSE]
    ELSE [tasks |-> [ts EXCEPT ![task_id].status = DONE],
          outcome |-> UpdatedToDone, committed |-> TRUE]

\* a transition without the "if not task" test: task.due_date raises on None
UpdateTaskStatus_NoCheck(ts, task_id, t) ==
    IF ~HasTask(ts, task_id)
    THEN [tasks |-> ts, outcome |-> "raised AttributeError", committed |-> FALSE]
    ELSE IF IsDue(t, ts[task_id].due_date)
         THEN [tasks |-> [ts EXCEPT ![task_id].status = DONE],
               outcome |-> UpdatedToDone, committed |-> TRUE]
         ELSE [tasks |-> ts, outcome |-> NotYetReached, committed |-> FALSE]

\* _update_task_status(task_id) at wall-clock time t
UpdateTaskStatus(ts, task_id, t) ==
    IF ~HasTask(ts, task_id)
    THEN [tasks |-> ts, outcome |-> NotFound, committed |-> FALSE]
    ELSE IF IsDue(t, ts[task_id].due_date)
         THEN [tasks |-> [ts EXCEPT ![task_id].status = DONE],
               outcome |-> UpdatedToDone, committed |-> TRUE]
         ELSE [tasks |-> ts, outcome |-> NotYetReached, committed |-> FALSE]

\* A message is handed to a worker once its eta has passed; a message without
\* eta, or with an eta in the past, is ready at once.
Ready(job, t) == job.eta <= t

\* apply_async(args=[id], eta=eta) / delay(id)
Submit(q, id, eta) == q \cup {[id |-> id, eta |-> eta]}

\* ------------------------------------------------------------------ Init
Init ==
    /\ tasks = << >>
    /\ nextId = 1
    /\ now = 0
    /\ queue = {}
    /\ workerUp = FALSE
    /\ serving = FALSE
    /\ ret = Ret("init", 0, Absent, "", FALSE, {}, 0, NoEta)
    /\ caughtUp = {}
    /\ writes = 0
    /\ running = {}

\* --------------------------------------------------------------- actions
\* the wall clock advances
Tick ==
    /\ now < MaxTime
    /\ now' = now + 1
    /\ ret' = Env
    /\ UNCHANGED <<tasks, nextId, queue, workerUp, serving, caughtUp, writes, running>>

\* a start-up that takes requests without the catch-up
Lifespan_NoCatchUp ==
    /\ ~serving
    /\ ret' = Ret("lifespan", 0, Absent, "started", FALSE, {}, 0, NoEta)
    /\ serving' = TRUE
    /\ caughtUp' = {id \in DOMAIN tasks : tasks[id].due_date <= now}
    /\ UNCHANGED <<tasks, nextId, now, queue, workerUp, writes, running>>

\* main.py lifespan: start-up of the serving process
Lifespan ==
    /\ ~serving
    /\ LET r == MarkOverdueTasksDone(tasks, now)
       IN  /\ tasks' = r.tasks
           /\ ret' = Ret("lifespan", 0, Absent, "started", r.committed, r.rows, r.count, NoEta)
    /\ serving' = TRUE
    /\ caughtUp' = {id \in DOMAIN tasks : tasks[id].due_date <= now}
    /\ UNCHANGED <<nextId, now, queue, workerUp, writes, running>>

\* the serving process stops
Shutdown ==
    /\ serving
    /\ serving' = FALSE
    /\ caughtUp' = {}
    /\ ret' = Env
    /\ UNCHANGED <<tasks, nextId, now, queue, workerUp, writes, running>>

\* a create that submits the message only for a due date still ahead
CreateTask_FutureOnly(due_date) ==
    /\ serving
    /\ writes < MaxWrites
    /\ writes' = writes + 1
    /\ nextId <= MaxTasks
    /\ Cardinality(queue) < MaxQueue
    /\ tasks' = [id \in DOMAIN tasks \cup {nextId} |->
                    IF id = nextId
                    THEN [due_date |-> due_date, status |-> PENDING]
                    ELSE tasks[id]]
    /\ nextId' = nextId + 1
    /\ queue' = IF due_date > now THEN Submit(queue, nextId, due_date) ELSE queue
    /\ ret' = Ret("create_task", nextId, Absent, "200", TRUE, {nextId}, 0, due_date)
    /\ UNCHANGED <<now, workerUp, serving, caughtUp, running>>

\* POST /task/
CreateTask(due_date) ==
    /\ serving
    /\ writes < MaxWrites
    /\ writes' = writes + 1
    /\ nextId <= MaxTasks
    /\ Cardinality(queue) < MaxQueue
    /\ tasks' = [id \in DOMAIN tasks \cup {nextId} |->
                    IF id = nextId
                    THEN [due_date |-> due_date, status |-> PENDING]
                    ELSE tasks[id]]
    /\ nextId' = nextId + 1
    /\ queue' = Submit(queue, nextId, due_date)
    /\ ret' = Ret("create_task", nextId, Absent, "200", TRUE, {nextId}, 0, due_date)
    /\ UNCHANGED <<now, workerUp, serving, caughtUp, running>>

\* PUT /task/{task_id}
UpdateTask(task_id, due_date, status) ==
    /\ serving
    /\ writes < MaxWrites
    /\ writes' = writes + 1
    /\ due_date # UnsetDueDate => Cardinality(queue) < MaxQueue
    /\ IF ~HasTask(tasks, task_id)
       THEN /\ ret' = Ret("update_task", task_id, Absent, "404", FALSE, {}, 0, NoEta)
            /\ UNCHANGED <<tasks, queue, caughtUp>>
       ELSE /\ tasks' = [tasks EXCEPT ![task_id] =
                            [due_date |-> IF due_date = UnsetDueDate THEN @.due_date ELSE due_date,
                             status |-> IF status = UnsetStatus THEN @.status ELSE status]]
            /\ queue' = IF due_date # UnsetDueDate
                        THEN Submit(queue, task_id, due_date)
                        ELSE queue
            /\ ret' = Ret("update_task", task_id, Absent, "200",
                          TRUE, {task_id}, 0,
                          IF due_date # UnsetDueDate THEN due_date ELSE NoEta)
            /\ caughtUp' = caughtUp \ {task_id}
    /\ UNCHANGED <<nextId, now, workerUp, serving, running>>

\* DELETE /task/{task_id}
DeleteTask(task_id) ==
    /\ serving
    /\ writes < MaxWrites
    /\ writes' = writes + 1
    /\ IF ~HasTask(tasks, task_id)
       THEN /\ ret' = Ret("delete_task", task_id, Absent, "404", FALSE, {}, 0, NoEta)
            /\ UNCHANGED <<tasks, caughtUp>>
       ELSE /\ tasks' = [id \in DOMAIN tasks \ {task_id} |-> tasks[id]]
            /\ ret' = Ret("delete_task", task_id, Absent, "200",
                          TRUE, {}, 0, NoEta)
            /\ caughtUp' = caughtUp \ {task_id}
    /\ UNCHANGED <<nextId, now, queue, workerUp, serving, running>>

\* a read handled by a process whose start-up has not run
GetTask_BeforeStartup(task_id) ==
    /\ ret' = IF HasTask(tasks, task_id)
              THEN Ret("get_task", task_id, Absent, "200", FALSE, {task_id}, 0, NoEta)
              ELSE Ret("get_task", task_id, Absent, "404", FALSE, {}, 0, NoEta)
    /\ UNCHANGED <<tasks, nextId, now, queue, workerUp, serving, caughtUp, writes, running>>

\* GET /task/{task_id}
GetTask(task_id) ==
    /\ serving
    /\ ret' = IF HasTask(tasks, task_id)
              THEN Ret("get_task", task_id, Absent, "200", FALSE, {task_id}, 0, NoEta)
              ELSE Ret("get_task", task_id, Absent, "404", FALSE, {}, 0, NoEta)
    /\ UNCHANGED <<tasks, nextId, now, queue, workerUp, serving, caughtUp, writes, running>>

\* GET /task/?skip=&limit=  (no ORDER BY: any rows of the right number)
GetTasks(skip, limit) ==
    /\ serving
    /\ \E rows \in SUBSET DOMAIN tasks :
          /\ LET n == Cardinality(DOMAIN tasks)
                 left == IF n > skip THEN n - skip ELSE 0
             IN  Cardinality(rows) = IF left < limit THEN left ELSE limit
          /\ ret' = Ret("get_tasks", 0, Absent, "200", FALSE, rows, 0, NoEta)
    /\ UNCHANGED <<tasks, nextId, now, queue, workerUp, serving, caughtUp, writes, running>>

\* GET /task/status/{status}
GetTasksByStatus(status) ==
    /\ serving
    /\ ret' = Ret("get_tasks_by_status", 0, Absent, "200", FALSE,
                  {id \in DOMAIN tasks : tasks[id].status = status}, 0, NoEta)
    /\ UNCHANGED <<tasks, nextId, now, queue, workerUp, serving, caughtUp, writes, running>>

\* signals.py _schedule_due_tasks: one .delay() per row of get_due_tasks
ScheduleDueTasks(q, ts, t) ==
    q \cup {[id |-> id, eta |-> NoEta] : id \in GetDueTasks(ts, t)}

\* a worker start that runs no sweep
OnWorkerReady_NoSweep ==
    /\ ~workerUp
    /\ workerUp' = TRUE
    /\ ret' = Ret("worker_ready", 0, Absent, "", FALSE, {}, 0, NoEta)
    /\ UNCHANGED <<tasks, nextId, now, queue, serving, caughtUp, writes, running>>

\* worker_ready: a worker process has started
OnWorkerReady ==
    /\ ~workerUp
    /\ workerUp' = TRUE
    /\ queue' = ScheduleDueTasks(queue, tasks, now)
    /\ ret' = Ret("worker_ready", 0, Absent, "", FALSE,
                  GetDueTasks(tasks, now), Cardinality(GetDueTasks(tasks, now)), NoEta)
    /\ UNCHANGED <<tasks, nextId, now, serving, caughtUp, writes, running>>

\* a beat start whose sweep marks the selected rows DONE itself
OnBeatInit_Marking ==
    /\ queue' = ScheduleDueTasks(queue, tasks, now)
    /\ tasks' = MarkOverdueTasksDone(tasks, now).tasks
    /\ ret' = Ret("beat_init", 0, Absent, "", FALSE,
                  GetDueTasks(tasks, now), Cardinality(GetDueTasks(tasks, now)), NoEta)
    /\ UNCHANGED <<nextId, now, workerUp, serving, caughtUp, writes, running>>

\* beat_init: the beat process has started
OnBeatInit ==
    /\ queue' = ScheduleDueTasks(queue, tasks, now)
    /\ ret' = Ret("beat_init", 0, Absent, "", FALSE,
                  GetDueTasks(tasks, now), Cardinality(GetDueTasks(tasks, now)), NoEta)
    /\ UNCHANGED <<tasks, nextId, now, workerUp, serving, caughtUp, writes, running>>

\* the worker process stops or crashes
WorkerDown ==
    /\ workerUp
    /\ workerUp' = FALSE
    /\ ret' = Env
    /\ UNCHANGED <<tasks, nextId, now, queue, serving, caughtUp, writes, running>>

\* the broker loses the one-shot message of a task (submitted with an eta)
LoseJob(job) ==
    /\ job \in queue
    /\ job.eta # NoEta
    /\ queue' = queue \ {job}
    /\ ret' = Env
    /\ UNCHANGED <<tasks, nextId, now, workerUp, serving, caughtUp, writes, running>>

\* update_task_status_task(task_id): a worker takes a ready message and runs it
UpdateTaskStatusTask(job) ==
    /\ workerUp
    /\ job \in queue
    /\ Ready(job, now)
    /\ LET r == UpdateTaskStatus(tasks, job.id, now)
       IN  /\ tasks' = r.tasks
           /\ ret' = Ret("update_task_status", job.id, PreOf(tasks, job.id),
                         r.outcome, r.committed, {}, 0, job.eta)
    /\ queue' = queue \ {job}
    /\ UNCHANGED <<nextId, now, workerUp, serving, caughtUp, writes, running>>

Next ==
    \/ Tick
    \/ Lifespan
    \/ Shutdown
    \/ \E d \in Times : CreateTask(d)
    \/ \E id \in Ids, d \in Times \cup {UnsetDueDate}, s \in TaskStatus \cup {UnsetStatus} :
          UpdateTask(id, d, s)
    \/ \E id \in Ids : DeleteTask(id)
    \/ \E id \in Ids : GetTask(id)
    \/ \E skip \in {0, 1}, limit \in {1, 100} : GetTasks(skip, limit)
    \/ \E s \in TaskStatus : GetTasksByStatus(s)
    \/ OnWorkerReady
    \/ OnBeatInit
    \/ WorkerDown
    \/ \E job \in queue : LoseJob(job)
    \/ \E job \in queue : UpdateTaskStatusTask(job)

Spec == Init /\ [][Next]_vars

\* The serving process started once and the worker through its restarts,
\* without the client reads (which change nothing but ret).
NextRecovery ==
    \/ Tick
    \/ Lifespan
    \/ \E d \in Times : CreateTask(d)
    \/ \E id \in Ids, d \in Times \cup {UnsetDueDate}, s \in TaskStatus \cup {UnsetStatus} :
          UpdateTask(id, d, s)
    \/ \E id \in Ids : DeleteTask(id)
    \/ OnWorkerReady
    \/ OnBeatInit
    \/ WorkerDown
    \/ \E job \in queue : LoseJob(job)
    \/ \E job \in queue : UpdateTaskStatusTask(job)

\* A stopped worker is started again, and the messages of the sweep are
\* delivered: a worker that keeps coming up takes them. The one-shot messages
\* may be lost or wait for ever.
LiveSpec ==
    /\ Init /\ [][NextRecovery]_vars
    /\ WF_vars(OnWorkerReady)
    /\ \A id \in Ids : SF_vars(UpdateTaskStatusTask([id |-> id, eta |-> NoEta]))

TypeOK ==
    /\ DOMAIN tasks \subseteq Ids
    /\ \A id \in DOMAIN tasks :
          tasks[id].due_date \in Times /\ tasks[id].status \in TaskStatus
    /\ nextId \in 1..(MaxTasks + 1)
    /\ now \in Times
    /\ Cardinality(queue) <= MaxQueue + MaxTasks
    /\ \A job \in queue : job.id \in Ids /\ job.eta \in Times \cup {NoEta}
    /\ workerUp \in BOOLEAN
    /\ serving \in BOOLEAN
    /\ caughtUp \subseteq DOMAIN tasks
    /\ writes \in 0..MaxWrites
    /\ running = {}

\* ---------------------------------------------------------------- claims
\* the operations of the delayed-execution core
CoreOps == {"update_task_status", "worker_ready", "beat_init", "lifespan"}

\* C1 (as stated): a call of the transition on a task that is already DONE and
\* whose due date has passed returns an outcome other than the one of the call
\* that made it DONE, and does not commit.
C1_AlreadyDoneOutcome ==
    (/\ ret.op = "update_task_status"
     /\ ret.pre = DONE
     /\ tasks[ret.id].due_date <= now)
    => (ret.outcome # UpdatedToDone /\ ~ret.committed)

\* C1 (amended): a call of the transition on an existing task whose due date has
\* passed leaves it DONE; if the task was DONE already the store is left as it
\* was, and the call returns the same "updated to DONE" result as the first call.
C1_Idempotence ==
    [][(/\ ret'.op = "update_task_status"
        /\ HasTask(tasks, ret'.id)
        /\ tasks[ret'.id].due_date <= now)
       => /\ HasTask(tasks', ret'.id)
          /\ tasks'[ret'.id].status = DONE
          /\ tasks[ret'.id].status = DONE
                => (tasks' = tasks /\ ret'.outcome = UpdatedToDone)]_vars

C1_Witness ==
    /\ ret.op = "update_task_status"
    /\ ret.pre = DONE
    /\ ret.outcome = UpdatedToDone
    /\ tasks[ret.id].status = DONE

\* C2: a call of the transition on a task whose due date is later than now
\* returns "not yet reached", does not commit, and leaves the store as it was
\* (a PENDING task stays PENDING).
C2_NoPrematureTransition ==
    [][(/\ ret'.op = "update_task_status"
        /\ HasTask(tasks, ret'.id)
        /\ tasks[ret'.id].due_date > now)
       => /\ ret'.outcome = NotYetReached
          /\ ~ret'.committed
          /\ tasks' = tasks]_vars

C2_Witness ==
    /\ ret.op = "update_task_status"
    /\ ret.pre = PENDING
    /\ ret.outcome = NotYetReached
    /\ tasks[ret.id].status = PENDING
    /\ tasks[ret.id].due_date > now

\* C8: a call of the transition for an id that has no row returns the
\* not-found result as a value and leaves the store as it was.
C8_DeletedTaskTolerance ==
    [][(/\ ret'.op = "update_task_status"
        /\ ~HasTask(tasks, ret'.id))
       => /\ ret'.outcome = NotFound
          /\ ~ret'.committed
          /\ tasks' = tasks]_vars

C8_Witness ==
    /\ ret.op = "update_task_status"
    /\ ret.pre = Absent
    /\ ret.outcome = NotFound
    /\ ret.id < nextId
    /\ ~HasTask(tasks, ret.id)

\* C9: a step of the core (transition, sweep, start-up catch-up) inserts and
\* deletes no row, changes no due date, and changes a status only to DONE; so
\* it never takes a task from DONE to PENDING.
C9_StatusMonotonic ==
    [][ret'.op \in CoreOps
       => /\ DOMAIN tasks' = DOMAIN tasks
          /\ \A id \in DOMAIN tasks :
                /\ tasks'[id].due_date = tasks[id].due_date
                /\ tasks'[id].status \in {tasks[id].status, DONE}]_vars

\* the catch-up ran over a store that held a DONE task and an overdue one
C9_Witness ==
    /\ ret.op = "lifespan"
    /\ ret.rows # {}
    /\ \E id \in DOMAIN tasks \ ret.rows : tasks[id].status = DONE

SweepOps == {"worker_ready", "beat_init"}

\* C4 (as stated): when the sweep returns, every task whose due date has passed
\* is DONE.
C4_SweepTransitions ==
    ret.op \in SweepOps
    => \A id \in DOMAIN tasks : tasks[id].due_date <= now => tasks[id].status = DONE

\* C4 (amended): the sweep changes no row; it submits one message without eta
\* for exactly the tasks with status != DONE and due_date <= now, and the number
\* it logs is the number of these tasks. Tasks with due_date > now, and DONE
\* tasks, get no message.
C4_SweepEnqueues ==
    [][ret'.op \in SweepOps
       => LET sel == {id \in DOMAIN tasks :
                         tasks[id].status # DONE /\ tasks[id].due_date <= now}
          IN  /\ tasks' = tasks
              /\ queue' = queue \cup {[id |-> id, eta |-> NoEta] : id \in sel}
              /\ ret'.rows = sel
              /\ ret'.count = Cardinality(sel)]_vars

C4_Witness ==
    /\ ret.op = "worker_ready"
    /\ ret.count = 1
    /\ \E id \in ret.rows :
          /\ tasks[id].status = PENDING
          /\ tasks[id].due_date <= now
          /\ [id |-> id, eta |-> NoEta] \in queue
    /\ \E id \in DOMAIN tasks \ ret.rows :
          /\ tasks[id].status = PENDING
          /\ tasks[id].due_date > now
          /\ [id |-> id, eta |-> NoEta] \notin queue

\* C5: when the start-up catch-up of the serving process has returned, every
\* task whose due date was <= now at the catch-up is in the store with status DONE.
C5_StartupGuarantee ==
    [][ret'.op = "lifespan"
       => \A id \in DOMAIN tasks :
             tasks[id].due_date <= now
                => (HasTask(tasks', id) /\ tasks'[id].status = DONE)]_vars

C5_Witness ==
    /\ ret.op = "lifespan"
    /\ ret.committed
    /\ ret.count >= 1
    /\ \A id \in ret.rows : tasks[id].status = DONE /\ tasks[id].due_date <= now

\* a message whose eta is not the due date the task has now
Stale(eta, due_date) == eta # NoEta /\ eta # due_date

C7_WitnessEarly ==
    /\ ret.op = "update_task_status"
    /\ ret.pre = PENDING
    /\ ret.eta # NoEta
    /\ ret.eta < tasks[ret.id].due_date
    /\ ret.outcome = NotYetReached

SweptPending(id) ==
    /\ ret.op \in SweepOps
    /\ HasTask(tasks, id)
    /\ tasks[id].status = PENDING
    /\ tasks[id].due_date <= now

\* C3: a task that is PENDING with due_date <= now when a worker or beat start
\* runs the sweep becomes DONE once the messages of the sweep are delivered, also
\* when its one-shot message was lost: it does not stay a task that is PENDING
\* with its due date passed (it is DONE, unless a client request has deleted it
\* or moved its due date ahead of now meanwhile).
C3_EventualCompletion ==
    \A id \in Ids :
        SweptPending(id)
            ~> \/ ~HasTask(tasks, id)
               \/ tasks[id].status = DONE
               \/ tasks[id].due_date > now

\* the sweep found a task whose one-shot message is gone
C3_Witness ==
    /\ ret.op = "worker_ready"
    /\ \E id \in ret.rows :
          /\ tasks[id].status = PENDING
          /\ \A job \in queue : job.id = id => job.eta = NoEta

ReadOps == {"get_task", "get_tasks", "get_tasks_by_status"}

\* a row a read returns as PENDING although its due date has passed
StaleRow(id) == tasks[id].status = PENDING /\ tasks[id].due_date <= now

\* C6 (as stated): no client read returns a task that is PENDING with
\* due_date <= the time of the read.
C6_NoStaleRead ==
    ret.op \in ReadOps => \A id \in ret.rows : ~StaleRow(id)

\* C6 (amended): no client read returns as PENDING a task whose due date had
\* passed when the serving process started, unless a client request has written
\* the task since the start-up.
C6_NoStaleReadAfterStartup ==
    ret.op \in ReadOps => \A id \in ret.rows \cap caughtUp : tasks[id].status = DONE

\* a read, after some requests and a clock tick, returns a task of the catch-up
C6_Witness ==
    /\ ret.op \in ReadOps
    /\ \E id \in ret.rows \cap caughtUp : tasks[id].due_date < now
    /\ \E id \in ret.rows \ caughtUp : StaleRow(id)

\* the handlers of the client requests
RequestOps == {"create_task", "update_task", "delete_task",
               "get_task", "get_tasks", "get_tasks_by_status"}

\* C14: a client request is handled only by a serving process whose start-up
\* has returned, and the process starts to serve only in the step of the
\* start-up, which has run the catch-up over the whole store by then: the step
\* of the start-up is no request, and no request is handled while not serving.
C14_CatchUpPrecedesServing ==
    [][/\ ret'.op \in RequestOps => (serving /\ serving')
       /\ (~serving /\ serving')
             => /\ ret'.op = "lifespan"
                /\ tasks' = MarkOverdueTasksDone(tasks, now).tasks
                /\ \A id \in DOMAIN tasks :
                      tasks[id].due_date <= now => tasks'[id].status = DONE]_vars

\* the first request after a restart reads a task the catch-up has made DONE
C14_Witness ==
    /\ ret.op = "get_task"
    /\ ret.id \in caughtUp
    /\ tasks[ret.id].status = DONE
    /\ [id |-> ret.id, eta |-> tasks[ret.id].due_date] \in queue

\* C15: every step in which a worker becomes ready is a step of on_worker_ready,
\* and every step of on_worker_ready or on_beat_init runs the sweep once: it
\* submits one message per task that get_due_tasks selects and counts as many.
\* Messages without eta are submitted by these two handlers only.
C15_SweepTriggers ==
    [][/\ (~workerUp /\ workerUp') => ret'.op = "worker_ready"
       /\ ret'.op \in SweepOps
             => /\ queue' = ScheduleDueTasks(queue, tasks, now)
                /\ ret'.rows = GetDueTasks(tasks, now)
                /\ ret'.count = Cardinality(GetDueTasks(tasks, now))
       /\ (\E job \in queue' \ queue : job.eta = NoEta) => ret'.op \in SweepOps]_vars

\* the beat starts while a worker is up, and its sweep submits two messages
C15_Witness ==
    /\ ret.op = "beat_init"
    /\ workerUp
    /\ ret.count = 2
    /\ \A id \in ret.rows : [id |-> id, eta |-> NoEta] \in queue

\* ------------------------------------------------- datetimes of the store
\* A datetime is [wall, tzinfo]: the reading of the clock face and the offset of
\* its zone from UTC; tzinfo is TzNone for a datetime without zone (naive).
UTC == 0
TzNone == -9
Offsets == UTC..(UTC + MaxOffset)
Datetimes == [wall : Times, tzinfo : Offsets \cup {TzNone}]

\* updated_at of a row no UPDATE has touched
NullTime == -3

\* the instant of a datetime that has a zone, on the scale of now
Timestamp(dt) == dt.wall - dt.tzinfo

\* datetime.replace(tzinfo=tz): the same reading of the clock face, in zone tz
Replace(dt, tz) == [dt EXCEPT !.tzinfo = tz]

\* a normalisation that reads a datetime without zone in the zone of the process
TaskDue_Local(due_date, local) ==
    IF due_date.tzinfo = TzNone THEN Replace(due_date, local) ELSE due_date

\* workers/task.py 33-35: task_due; local is the zone of the worker process
TaskDue(due_date, local) ==
    IF due_date.tzinfo = TzNone THEN Replace(due_date, UTC) ELSE due_date

\* routers/v1/task.py 114-116: eta; local is the zone of the serving process
Eta(due_date, local) ==
    IF due_date.tzinfo = TzNone THEN Replace(due_date, UTC) ELSE due_date

\* the rows as _update_task_status compares them with now_utc
Seen(ts, local) ==
    [id \in DOMAIN ts |-> [due_date |-> Timestamp(TaskDue(ts[id].due_date, local)),
                           status |-> ts[id].status]]

\* a commit that writes every row of the session, changed or not
Flush_Touch(ts, changed, t) ==
    [id \in DOMAIN ts |->
        [ts[id] EXCEPT !.status = changed[id].status, !.updated_at = t]]

\* the commit of the session: an UPDATE for each row with a changed status,
\* which sets the status column and, by its onupdate, updated_at
Flush(ts, changed, t) ==
    [id \in DOMAIN ts |->
        IF changed[id].status # ts[id].status
        THEN [ts[id] EXCEPT !.status = changed[id].status, !.updated_at = t]
        ELSE ts[id]]

StoreInit ==
    /\ tasks = << >>
    /\ nextId = 1
    /\ now = 0
    /\ queue = {}
    /\ workerUp = TRUE
    /\ serving = TRUE
    /\ ret = Ret("init", 0, Absent, "", FALSE, {}, 0, NoEta)
    /\ caughtUp = {}
    /\ writes = 0
    /\ running = {}

\* A datetime column of the store gives a written value back without zone, the
\* reading of the clock face kept (the DateTime of SQLite, the default
\* DATABASE_URL), or, if the value has a zone, as the same instant in UTC.
Stored(dt) ==
    {Replace(dt, TzNone)}
    \cup (IF dt.tzinfo = TzNone THEN {} ELSE {[wall |-> Timestamp(dt), tzinfo |-> UTC]})

\* due_date of a TaskUpdate that does not set it
UnsetDatetime == [wall |-> UnsetDueDate, tzinfo |-> TzNone]

\* POST /task/: the row is inserted and read back (refresh), and the message
\* gets its eta from the due date read back
StoreCreateTask(due_date, local) ==
    /\ serving
    /\ writes < MaxWrites
    /\ writes' = writes + 1
    /\ nextId <= MaxTasks
    /\ nextId' = nextId + 1
    /\ \E stored \in Stored(due_date) :
          LET eta == Timestamp(Eta(stored, local))
          IN  /\ tasks' = [id \in DOMAIN tasks \cup {nextId} |->
                              IF id = nextId
                              THEN [due_date |-> stored, status |-> PENDING,
                                    updated_at |-> NullTime]
                              ELSE tasks[id]]
              /\ queue' = Submit(queue, nextId, eta)
              /\ ret' = Ret("create_task", nextId, Absent, "200", TRUE, {nextId}, 0, eta)
    /\ UNCHANGED <<now, workerUp, serving, caughtUp, running>>

\* PUT /task/{task_id}: the set fields are written, and the message gets its
\* eta from the due date of the request
StoreUpdateTask(task_id, due_date, status, local) ==
    /\ serving
    /\ writes < MaxWrites
    /\ writes' = writes + 1
    /\ IF ~HasTask(tasks, task_id)
       THEN /\ ret' = Ret("update_task", task_id, Absent, "404", FALSE, {}, 0, NoEta)
            /\ UNCHANGED <<tasks, queue>>
       ELSE \E stored \in (IF due_date = UnsetDatetime
                            THEN {tasks[task_id].due_date}
                            ELSE Stored(due_date)) :
              LET set == [due_date |-> stored,
                          status |-> IF status = UnsetStatus
                                     THEN tasks[task_id].status ELSE status,
                          updated_at |-> tasks[task_id].updated_at]
                  row == IF set = tasks[task_id] THEN set
                         ELSE [set EXCEPT !.updated_at = now]
                  eta == IF due_date = UnsetDatetime THEN NoEta
                         ELSE Timestamp(Eta(due_date, local))
              IN  /\ tasks' = [tasks EXCEPT ![task_id] = row]
                  /\ queue' = IF due_date = UnsetDatetime THEN queue
                              ELSE Submit(queue, task_id, eta)
                  /\ ret' = Ret("update_task", task_id, Absent, "200", TRUE,
                                {task_id}, 0, eta)
    /\ UNCHANGED <<nextId, now, workerUp, serving, caughtUp, running>>

\* update_task_status_task(task_id) over the rows as the store gives them
StoreUpdateTaskStatusTask(task_id, local) ==
    /\ workerUp
    /\ LET r == UpdateTaskStatus(Seen(tasks, local), task_id, now)
       IN  /\ tasks' = Flush(tasks, r.tasks, now)
           /\ ret' = Ret("update_task_status", task_id, PreOf(tasks, task_id),
                         r.outcome, r.committed, {}, 0, NoEta)
    /\ UNCHANGED <<nextId, now, queue, workerUp, serving, caughtUp, writes, running>>

StoreNext ==
    \/ Tick
    \/ \E d \in Datetimes, local \in Offsets : StoreCreateTask(d, local)
    \/ \E id \in Ids, d \in Datetimes \cup {UnsetDatetime},
          st \in TaskStatus \cup {UnsetStatus}, local \in Offsets :
          StoreUpdateTask(id, d, st, local)
    \/ \E id \in Ids, local \in Offsets : StoreUpdateTaskStatusTask(id, local)

StoreSpec == StoreInit /\ [][StoreNext]_vars

\* C16: a due date the store gives back without zone is read as UTC, whatever
\* the zone of the process: the message of the create gets the reading of the
\* clock face as its eta, and the transition makes the task DONE exactly when
\* now has reached that reading (due 0, now 1: DONE), and changes nothing before.
C16_TimezoneNormalization ==
    [][/\ (/\ ret'.op = "create_task"
           /\ tasks'[ret'.id].due_date.tzinfo = TzNone)
             => /\ ret'.eta = tasks'[ret'.id].due_date.wall
                /\ [id |-> ret'.id, eta |-> tasks'[ret'.id].due_date.wall] \in queue'
       /\ (/\ ret'.op = "update_task_status"
           /\ HasTask(tasks, ret'.id)
           /\ tasks[ret'.id].due_date.tzinfo = TzNone)
             => LET id == ret'.id
                    wall == tasks[id].due_date.wall
                IN  /\ tasks'[id].due_date = tasks[id].due_date
                    /\ now >= wall => (tasks'[id].status = DONE
                                        /\ ret'.outcome = UpdatedToDone)
                    /\ now < wall => (tasks' = tasks
                                       /\ ret'.outcome = NotYetReached)]_vars

\* the task due at 0 without zone, met PENDING by the transition at 1
C16_Witness ==
    /\ ret.op = "update_task_status"
    /\ ret.pre = PENDING
    /\ now = 1
    /\ tasks[ret.id] = [due_date |-> [wall |-> 0, tzinfo |-> TzNone],
                        status |-> DONE, updated_at |-> 1]
    /\ [id |-> ret.id, eta |-> 0] \in queue

\* C19 (as stated): a call of the transition commits only when it changes a
\* PENDING task to DONE; a call that ends "not found" or "not yet reached", or
\* that meets the task DONE, commits nothing and leaves the store as it was; and
\* no column other than status, and no other row, is changed.
C19_WriteFrame ==
    [][ret'.op = "update_task_status"
       => LET id == ret'.id
          IN  /\ DOMAIN tasks' = DOMAIN tasks
              /\ ret'.committed => (ret'.pre = PENDING /\ tasks'[id].status = DONE)
              /\ (ret'.outcome \in {NotFound, NotYetReached} \/ ret'.pre = DONE)
                    => (~ret'.committed /\ tasks' = tasks)
              /\ \A other \in DOMAIN tasks :
                    /\ other # id => tasks'[other] = tasks[other]
                    /\ tasks'[other].due_date = tasks[other].due_date
                    /\ tasks'[other].updated_at = tasks[other].updated_at]_vars

\* C19 (amended): a call of the transition changes at most the row of task_id,
\* and only when it meets it PENDING with its due date passed: the one UPDATE
\* sets status to DONE and, by the column's onupdate, updated_at to now; no
\* other column and no other row is changed. A call that ends "not found" or
\* "not yet reached" commits nothing; a call that meets the task DONE with its
\* due date passed assigns DONE again and commits, which changes no row, and
\* returns "updated to DONE".
C19_WriteFrameStore ==
    [][ret'.op = "update_task_status"
       => LET id == ret'.id
          IN  /\ DOMAIN tasks' = DOMAIN tasks
              /\ \A other \in DOMAIN tasks \ {id} : tasks'[other] = tasks[other]
              /\ tasks' # tasks
                    => /\ ret'.pre = PENDING
                       /\ ret'.outcome = UpdatedToDone
                       /\ tasks'[id] = [tasks[id] EXCEPT !.status = DONE,
                                                         !.updated_at = now]
              /\ ret'.outcome \in {NotFound, NotYetReached}
                    => (~ret'.committed /\ tasks' = tasks)
              /\ ret'.pre = DONE
                    => /\ tasks' = tasks
                       /\ ret'.committed <=> ret'.outcome = UpdatedToDone]_vars

\* the call has made one of two overdue PENDING tasks DONE
C19_Witness ==
    /\ ret.op = "update_task_status"
    /\ ret.pre = PENDING
    /\ ret.committed
    /\ tasks[ret.id].status = DONE
    /\ tasks[ret.id].updated_at = now
    /\ \E other \in DOMAIN tasks \ {ret.id} :
          /\ tasks[other].status = PENDING
          /\ tasks[other].updated_at = NullTime
          /\ Timestamp(TaskDue(tasks[other].due_date, UTC)) <= now

\* a later call has met the task DONE and has left its row as it was
C19_WitnessDone ==
    /\ ret.op = "update_task_status"
    /\ ret.pre = DONE
    /\ ret.committed
    /\ ret.outcome = UpdatedToDone
    /\ tasks[ret.id].updated_at < now

\* C20: after any requests, every task of the store has had a message submitted
\* whose eta is the due date the store holds for it now, as the transition
\* reads it (create: the due date of the row; update that sets due_date: the
\* new due date).
C20_JobForCurrentDueDate ==
    \A id \in DOMAIN tasks :
        [id |-> id, eta |-> Timestamp(TaskDue(tasks[id].due_date, UTC))] \in queue

\* what holds of the code: the message of a create has the due date of the row
\* as its eta; the message of an update has the instant of the due date of the
\* request, which is the due date of the row unless the store has dropped a zone
\* other than UTC; an update that sets no due_date submits nothing.
C20_JobForRequestedDueDate ==
    [][/\ ret'.op = "create_task"
             => /\ ret'.eta = Timestamp(TaskDue(tasks'[ret'.id].due_date, UTC))
                /\ queue' = queue \cup {[id |-> ret'.id, eta |-> ret'.eta]}
       /\ (ret'.op = "update_task" /\ ret'.outcome = "200")
             => IF ret'.eta = NoEta
                THEN /\ queue' = queue
                     /\ tasks'[ret'.id].due_date = tasks[ret'.id].due_date
                ELSE /\ queue' = queue \cup {[id |-> ret'.id, eta |-> ret'.eta]}
                     /\ \/ ret'.eta = Timestamp(TaskDue(tasks'[ret'.id].due_date, UTC))
                        \/ tasks'[ret'.id].due_date.tzinfo = TzNone]_vars

\* an update has moved the due date, and the store has dropped its zone: the
\* message is for an instant before the due date the transition will read
C20_Witness ==
    /\ ret.op = "update_task"
    /\ ret.eta # NoEta
    /\ tasks[ret.id].due_date.tzinfo = TzNone
    /\ ret.eta < tasks[ret.id].due_date.wall
    /\ \A job \in queue : job.id = ret.id => job.eta # tasks[ret.id].due_date.wall

\* ------------------------------------------------- the broker unreachable
\* The publishing of a message (apply_async, delay) raises when the broker
\* cannot be reached. No handler catches it but schedule_due_tasks.

\* the messages of the sweep for the tasks ids
Delay(q, ids) == q \cup {[id |-> id, eta |-> NoEta] : id \in ids}

\* a create whose row is taken back when the publishing raises
CreateTaskQueueDown_Rollback(due_date) ==
    /\ serving
    /\ writes < MaxWrites
    /\ writes' = writes + 1
    /\ nextId <= MaxTasks
    /\ nextId' = nextId + 1
    /\ ret' = Ret("create_task", nextId, Absent, "500", FALSE, {}, 0, due_date)
    /\ UNCHANGED <<tasks, now, queue, workerUp, serving, caughtUp, running>>

\* POST /task/ when apply_async raises: the row is committed (service.create_task)
\* before the publishing, and the exception leaves the route
CreateTaskQueueDown(due_date) ==
    /\ serving
    /\ writes < MaxWrites
    /\ writes' = writes + 1
    /\ nextId <= MaxTasks
    /\ tasks' = [id \in DOMAIN tasks \cup {nextId} |->
                    IF id = nextId
                    THEN [due_date |-> due_date, status |-> PENDING]
                    ELSE tasks[id]]
    /\ nextId' = nextId + 1
    /\ ret' = Ret("create_task", nextId, Absent, "500", TRUE, {nextId}, 0, due_date)
    /\ UNCHANGED <<now, queue, workerUp, serving, caughtUp, running>>

\* PUT /task/{task_id} with a due date when apply_async raises: the fields are
\* committed (service.update_task) before the publishing
UpdateTaskQueueDown(task_id, due_date, status) ==
    /\ serving
    /\ writes < MaxWrites
    /\ writes' = writes + 1
    /\ HasTask(tasks, task_id)
    /\ due_date # UnsetDueDate
    /\ tasks' = [tasks EXCEPT ![task_id] =
                    [due_date |-> due_date,
                     status |-> IF status = UnsetStatus THEN @.status ELSE status]]
    /\ ret' = Ret("update_task", task_id, Absent, "500", TRUE, {task_id}, 0, due_date)
    /\ caughtUp' = caughtUp \ {task_id}
    /\ UNCHANGED <<nextId, now, queue, workerUp, serving, running>>

\* worker_ready when the delay of the task failed raises: the messages of the
\* tasks the loop took before it are out, the loop is left, and
\* schedule_due_tasks logs the exception (the select has no ORDER BY: any
\* tasks can come before)
OnWorkerReadyQueueDown(failed, before) ==
    /\ ~workerUp
    /\ workerUp' = TRUE
    /\ failed \in GetDueTasks(tasks, now)
    /\ before \subseteq GetDueTasks(tasks, now) \ {failed}
    /\ queue' = Delay(queue, before)
    /\ ret' = Ret("worker_ready", failed, Absent, "error", FALSE,
                  before, Cardinality(before), NoEta)
    /\ UNCHANGED <<tasks, nextId, now, serving, caughtUp, writes, running>>

\* beat_init when the delay of the task failed raises
OnBeatInitQueueDown(failed, before) ==
    /\ failed \in GetDueTasks(tasks, now)
    /\ before \subseteq GetDueTasks(tasks, now) \ {failed}
    /\ queue' = Delay(queue, before)
    /\ ret' = Ret("beat_init", failed, Absent, "error", FALSE,
                  before, Cardinality(before), NoEta)
    /\ UNCHANGED <<tasks, nextId, now, workerUp, serving, caughtUp, writes, running>>

FaultNext ==
    \/ NextRecovery
    \/ Shutdown
    \/ \E d \in Times : CreateTaskQueueDown(d)
    \/ \E id \in Ids, d \in Times, s \in TaskStatus \cup {UnsetStatus} :
          UpdateTaskQueueDown(id, d, s)
    \/ \E failed \in Ids, before \in SUBSET Ids : OnWorkerReadyQueueDown(failed, before)
    \/ \E failed \in Ids, before \in SUBSET Ids : OnBeatInitQueueDown(failed, before)

FaultSpec == Init /\ [][FaultNext]_vars

\* C11: when the delay of one task raises during a sweep, the sweep goes on:
\* every other task that get_due_tasks selected has its message.
C11_SweepIsolation ==
    (ret.op \in SweepOps /\ ret.outcome = "error")
    => \A id \in GetDueTasks(tasks, now) \ {ret.id} :
          [id |-> id, eta |-> NoEta] \in queue

\* the delay of the first of two overdue tasks raised: neither has a message
C11_Witness ==
    /\ ret.op = "worker_ready"
    /\ ret.outcome = "error"
    /\ ret.rows = {}
    /\ Cardinality(GetDueTasks(tasks, now)) = 2
    /\ \A id \in GetDueTasks(tasks, now) : [id |-> id, eta |-> NoEta] \notin queue

WriteOps == {"create_task", "update_task"}

\* C12: a create or update answers 200 only with its message in the broker;
\* when the publishing raises the request fails (500) with nothing submitted,
\* and the row, with the due date of the request, stays committed: from its due
\* date on, unless it is DONE, get_due_tasks selects it, and the catch-up and
\* the transition make it DONE.
C12_LoudFailureSweepFallback ==
    [][/\ (ret'.op \in WriteOps /\ ret'.outcome = "200" /\ ret'.eta # NoEta)
             => [id |-> ret'.id, eta |-> ret'.eta] \in queue'
       /\ (ret'.op \in WriteOps /\ ret'.outcome = "500")
             => LET id == ret'.id
                IN  /\ queue' = queue
                    /\ ret'.committed
                    /\ HasTask(tasks', id)
                    /\ tasks'[id].due_date = ret'.eta
                    /\ \A t \in Times :
                          (t >= tasks'[id].due_date /\ tasks'[id].status # DONE)
                             => /\ id \in GetDueTasks(tasks', t)
                                /\ MarkOverdueTasksDone(tasks', t).tasks[id].status = DONE
                                /\ UpdateTaskStatus(tasks', id, t).tasks[id].status = DONE]_vars

\* a create has failed at the publishing: its row is there, overdue, without
\* any message
C12_Witness ==
    /\ ret.op = "create_task"
    /\ ret.outcome = "500"
    /\ tasks[ret.id] = [due_date |-> ret.eta, status |-> PENDING]
    /\ ret.id \in GetDueTasks(tasks, now)
    /\ \A job \in queue : job.id # ret.id

\* C13: a create or update whose row was committed answers 200, also when the
\* publishing of its message has failed.
C13_RequestSucceeds ==
    (ret.op \in WriteOps /\ ret.committed) => ret.outcome = "200"

\* an update has moved the due date and failed at the publishing
C13_Witness ==
    /\ ret.op = "update_task"
    /\ ret.outcome = "500"
    /\ tasks[ret.id].due_date = ret.eta
    /\ [id |-> ret.id, eta |-> ret.eta] \notin queue
    /\ \E job \in queue : job.id = ret.id /\ job.eta # NoEta

\* --------------------------------------------- the transition in two steps
\* _update_task_status loads the row (get_task), reads the clock and tests the
\* due date it has loaded; if it is due it assigns DONE and commits. The session
\* holds no lock on the row between the load and the commit: the requests of
\* the clients and the other workers commit in between.

StaleData == "error: stale data"

\* a worker takes a ready message: lines 26-37, up to the test
UpdateTaskStatusLoad(job, local) ==
    /\ workerUp
    /\ job \in queue
    /\ Ready(job, now)
    /\ queue' = queue \ {job}
    /\ LET r == UpdateTaskStatus(Seen(tasks, local), job.id, now)
       IN  IF r.outcome = UpdatedToDone
           THEN /\ running' = running \cup
                       {[id |-> job.id, eta |-> job.eta, task |-> tasks[job.id]]}
                /\ ret' = Env
           ELSE /\ running' = running
                /\ ret' = Ret("update_task_status", job.id, PreOf(tasks, job.id),
                              r.outcome, FALSE, {}, 0, job.eta)
    /\ UNCHANGED <<tasks, nextId, now, workerUp, serving, caughtUp, writes>>

\* a commit that writes the whole row as it was loaded, with status DONE
UpdateTaskStatusCommit_WholeRow(call) ==
    /\ call \in running
    /\ running' = running \ {call}
    /\ tasks' = IF HasTask(tasks, call.id)
                THEN [tasks EXCEPT ![call.id] =
                         [call.task EXCEPT !.status = DONE, !.updated_at = now]]
                ELSE tasks
    /\ ret' = Ret("update_task_status", call.id, call.task.status,
                  UpdatedToDone, TRUE, {}, 0, call.eta)
    /\ UNCHANGED <<nextId, now, queue, workerUp, serving, caughtUp, writes>>

\* lines 38-41: the assignment and the commit. The UPDATE sets the status (and
\* updated_at) of the row with the id, if the status loaded was not DONE
\* already; it fails if the row is gone.
UpdateTaskStatusCommit(call) ==
    /\ call \in running
    /\ running' = running \ {call}
    /\ IF call.task.status = DONE
       THEN /\ tasks' = tasks
            /\ ret' = Ret("update_task_status", call.id, call.task.status,
                          UpdatedToDone, TRUE, {}, 0, call.eta)
       ELSE IF ~HasTask(tasks, call.id)
       THEN /\ tasks' = tasks
            /\ ret' = Ret("update_task_status", call.id, call.task.status,
                          StaleData, FALSE, {}, 0, call.eta)
       ELSE /\ tasks' = [tasks EXCEPT ![call.id].status = DONE,
                                      ![call.id].updated_at = now]
            /\ ret' = Ret("update_task_status", call.id, call.task.status,
                          UpdatedToDone, TRUE, {}, 0, call.eta)
    /\ UNCHANGED <<nextId, now, queue, workerUp, serving, caughtUp, writes>>

RaceNext ==
    \/ Tick
    \/ \E d \in Datetimes, local \in Offsets : StoreCreateTask(d, local)
    \/ \E id \in Ids, d \in Datetimes \cup {UnsetDatetime},
          st \in TaskStatus \cup {UnsetStatus}, local \in Offsets :
          StoreUpdateTask(id, d, st, local)
    \/ \E id \in Ids : DeleteTask(id)
    \/ \E job \in queue, local \in Offsets : UpdateTaskStatusLoad(job, local)
    \/ \E call \in running : UpdateTaskStatusCommit(call)

RaceSpec == StoreInit /\ [][RaceNext]_vars

\* C17: the load, the test and the write of a transition are one step, so that
\* a call that has ended "updated to DONE" never leaves its task DONE with a
\* stored due date later than now, whatever update of a client runs beside it.
C17_AtomicTransition ==
    (/\ ret.op = "update_task_status"
     /\ ret.outcome = UpdatedToDone
     /\ HasTask(tasks, ret.id))
    => ~(/\ tasks[ret.id].status = DONE
         /\ Timestamp(TaskDue(tasks[ret.id].due_date, UTC)) > now)

\* the call loaded the task PENDING and due; an update moved the due date
\* ahead of now; then the call committed DONE
C17_Witness ==
    /\ ret.op = "update_task_status"
    /\ ret.pre = PENDING
    /\ ret.committed
    /\ HasTask(tasks, ret.id)
    /\ tasks[ret.id].status = DONE
    /\ tasks[ret.id].updated_at = now
    /\ Timestamp(TaskDue(tasks[ret.id].due_date, UTC)) > now
    /\ [id |-> ret.id, eta |-> Timestamp(TaskDue(tasks[ret.id].due_date, UTC))] \in queue

\* the row but for the two columns the UPDATE of a transition sets
Rest(row) == [row EXCEPT !.status = DONE, !.updated_at = NullTime]

\* C18 (as stated): when calls of the transition that have loaded the same
\* overdue PENDING task commit, in any order, each ends "updated to DONE" and
\* the row is the row they loaded with status DONE, every other column as it
\* was loaded.
C18_SameTaskRace ==
    [][\A call \in running :
          (/\ running' = running \ {call}
           /\ call.task.status = PENDING
           /\ HasTask(tasks, call.id)
           /\ Rest(tasks[call.id]) = Rest(call.task))
          => /\ ret'.outcome = UpdatedToDone
             /\ tasks' = [tasks EXCEPT ![call.id] =
                             [call.task EXCEPT !.status = DONE]]]_vars

\* C18 (amended): every call of the transition that has loaded its task due
\* commits without error while the row exists, whatever other calls have
\* committed since its load: it ends "updated to DONE" and leaves the row DONE,
\* with its due date and every other row as they were; a call that loaded the
\* task PENDING sets updated_at to the time of its own commit.
C18_BenignRace ==
    [][\A call \in running :
          (running' = running \ {call} /\ HasTask(tasks, call.id))
          => /\ ret'.op = "update_task_status"
             /\ ret'.id = call.id
             /\ ret'.outcome = UpdatedToDone
             /\ ret'.committed
             /\ tasks' = IF call.task.status = PENDING
                         THEN [tasks EXCEPT ![call.id].status = DONE,
                                            ![call.id].updated_at = now]
                         ELSE tasks
             /\ call.task.status = PENDING => tasks'[call.id].status = DONE
             /\ Rest(tasks[call.id]) = Rest(call.task)
                   => Rest(tasks'[call.id]) = Rest(call.task)]_vars

\* two calls have loaded the task PENDING; the first has committed, the second
\* is still to commit
C18_Witness ==
    /\ ret.op = "update_task_status"
    /\ ret.pre = PENDING
    /\ ret.committed
    /\ tasks[ret.id].status = DONE
    /\ \E call \in running :
          /\ call.id = ret.id
          /\ call.task.status = PENDING
          /\ Rest(call.task) = Rest(tasks[ret.id])

\* the second of the calls has committed, after the clock has moved
C18_WitnessLast ==
    /\ ret.op = "update_task_status"
    /\ ret.pre = PENDING
    /\ ret.committed
    /\ running = {}
    /\ now > 0
    /\ tasks[ret.id].status = DONE
    /\ tasks[ret.id].updated_at = now
    /\ \A job \in queue : job.id # ret.id
    /\ writes = MaxWrites

\* C22: the catch-up returns the number of the rows it has changed to DONE,
\* which is the number of the rows with status != DONE and due_date <= now; it
\* leaves the rows with due_date > now and the DONE rows as they were; when no
\* row qualifies it returns 0 and does not commit.
C22_CatchUpCount ==
    [][ret'.op = "lifespan"
       => LET sel == {id \in DOMAIN tasks :
                         tasks[id].status # DONE /\ tasks[id].due_date <= now}
              changed == {id \in DOMAIN tasks : tasks'[id] # tasks[id]}
          IN  /\ DOMAIN tasks' = DOMAIN tasks
              /\ ret'.count = Cardinality(sel)
              /\ ret'.count = Cardinality(changed)
              /\ changed = sel
              /\ \A id \in sel : tasks'[id] = [tasks[id] EXCEPT !.status = DONE]
              /\ ret'.committed <=> sel # {}
              /\ sel = {} => (ret'.count = 0 /\ tasks' = tasks)]_vars

\* the catch-up has met an overdue PENDING task, a DONE one with its due date
\* passed, and has returned 1
C22_Witness ==
    /\ ret.op = "lifespan"
    /\ ret.count = 1
    /\ ret.committed
    /\ Cardinality(DOMAIN tasks) = 2
    /\ \A id \in DOMAIN tasks : tasks[id].status = DONE /\ tasks[id].due_date <= now
    /\ \E id \in DOMAIN tasks : [id |-> id, eta |-> tasks[id].due_date] \notin queue

\* the catch-up has met no row that qualifies, a PENDING task being due later
C22_WitnessNone ==
    /\ ret.op = "lifespan"
    /\ ret.count = 0
    /\ ~ret.committed
    /\ \E id \in DOMAIN tasks : tasks[id].status = PENDING /\ tasks[id].due_date > now

\* C23: an update that sets a DONE task whose due date has passed back to
\* PENDING submits no message unless it carries a due date; the task is then
\* selected by get_due_tasks like any other, so that the next sweep submits
\* its message, and the transition run on it, or the next catch-up, makes it
\* DONE.
C23_ResetReentersOverdue ==
    [][(/\ ret'.op = "update_task"
        /\ HasTask(tasks, ret'.id)
        /\ tasks[ret'.id].status = DONE
        /\ tasks'[ret'.id].status = PENDING
        /\ tasks'[ret'.id].due_date <= now)
       => LET id == ret'.id
          IN  /\ ret'.eta = NoEta => queue' = queue
              /\ id \in GetDueTasks(tasks', now')
              /\ [id |-> id, eta |-> NoEta] \in ScheduleDueTasks(queue', tasks', now')
              /\ Ready([id |-> id, eta |-> NoEta], now')
              /\ UpdateTaskStatus(tasks', id, now').tasks[id].status = DONE
              /\ MarkOverdueTasksDone(tasks', now').tasks[id].status = DONE]_vars

\* an update without due date has left a task PENDING whose due date has
\* passed and that has no message in the broker
C23_Witness ==
    /\ ret.op = "update_task"
    /\ ret.outcome = "200"
    /\ ret.eta = NoEta
    /\ tasks[ret.id].status = PENDING
    /\ tasks[ret.id].due_date < now
    /\ \A job \in queue : job.id # ret.id
    /\ workerUp

\* C25: the worker sweep writes nothing to the store: it commits nothing and
\* leaves every row as it is, and what it adds to the broker is one message
\* without eta for each task that get_due_tasks selects. A status therefore
\* changes to DONE only in a step of the transition, of the catch-up or of a
\* client update, and a message of the sweep that runs when the due date of
\* its task has been moved to the future leaves the task as it is.
C25_SweepReadOnly ==
    [][/\ ret'.op \in SweepOps
          => /\ tasks' = tasks
             /\ writes' = writes
             /\ ~ret'.committed
             /\ \A job \in queue' \ queue :
                    job.eta = NoEta /\ job.id \in GetDueTasks(tasks, now)
             /\ \A id \in GetDueTasks(tasks, now) :
                    Cardinality({job \in queue' : job.id = id /\ job.eta = NoEta}) = 1
       /\ \A id \in DOMAIN tasks \cap DOMAIN tasks' :
             (tasks[id].status # DONE /\ tasks'[id].status = DONE)
             => \/ ret'.op = "update_task_status" /\ ret'.id = id /\ ret'.committed
                \/ ret'.op = "lifespan" /\ ret'.committed
                \/ ret'.op = "update_task" /\ ret'.id = id
       /\ (/\ ret'.op = "update_task_status"
           /\ ret'.eta = NoEta
           /\ HasTask(tasks, ret'.id)
           /\ tasks[ret'.id].due_date > now)
          => /\ tasks' = tasks
             /\ ret'.outcome = NotYetReached
             /\ ~ret'.committed]_vars

\* a message of the sweep has run after the due date of its task had been
\* moved to the future
C25_Witness ==
    /\ ret.op = "update_task_status"
    /\ ret.eta = NoEta
    /\ ret.outcome = NotYetReached
    /\ tasks[ret.id].status = PENDING
    /\ tasks[ret.id].due_date > now

\* the sweep has selected a task and left it PENDING
C25_WitnessSweep ==
    /\ ret.op = "beat_init"
    /\ ret.count = 2
    /\ \A id \in ret.rows :
          tasks[id].status = PENDING /\ [id |-> id, eta |-> NoEta] \in queue

\* ------------------------------------------------------------ store failures
\* What the store does to a handler whose transaction it cannot finish: the
\* statement or the commit raises, the exception leaves the handler, and the
\* session that closes rolls the open transaction back.
Raised == "raise"

\* update_task_status_task(task_id) when the store fails at the lookup or at
\* the commit: the exception of asyncio.run is logged and raised again; the
\* message has been taken and nothing is committed
UpdateTaskStatusTaskStoreError(job) ==
    /\ workerUp
    /\ job \in queue
    /\ Ready(job, now)
    /\ tasks' = tasks
    /\ ret' = Ret("update_task_status", job.id, PreOf(tasks, job.id),
                  Raised, FALSE, {}, 0, job.eta)
    /\ queue' = queue \ {job}
    /\ UNCHANGED <<nextId, now, workerUp, serving, caughtUp, writes, running>>

\* a catch-up with a commit after each row, stopped by a failure of the store
LifespanStoreError_CommitEach(flushed) ==
    /\ ~serving
    /\ flushed \subseteq GetDueTasks(tasks, now)
    /\ tasks' = [id \in DOMAIN tasks |->
                    IF id \in flushed THEN [tasks[id] EXCEPT !.status = DONE]
                                      ELSE tasks[id]]
    /\ ret' = Ret("lifespan", 0, Absent, Raised, FALSE, flushed, 0, NoEta)
    /\ UNCHANGED <<nextId, now, queue, workerUp, serving, caughtUp, writes, running>>

\* lifespan when the store fails in mark_overdue_tasks_done: flushed are the
\* selected rows whose UPDATE had gone out in the one transaction when the
\* store failed (none if the SELECT failed). The commit after the loop never
\* returns, the exception leaves lifespan before the yield, and the start-up
\* fails
LifespanStoreError(flushed) ==
    /\ ~serving
    /\ flushed \subseteq GetDueTasks(tasks, now)
    /\ tasks' = tasks
    /\ ret' = Ret("lifespan", 0, Absent, Raised, FALSE, flushed, 0, NoEta)
    /\ UNCHANGED <<nextId, now, queue, workerUp, serving, caughtUp, writes, running>>

StoreFaultNext ==
    \/ NextRecovery
    \/ Shutdown
    \/ \E job \in queue : UpdateTaskStatusTaskStoreError(job)
    \/ \E flushed \in SUBSET Ids : LifespanStoreError(flushed)

StoreFaultSpec == Init /\ [][StoreFaultNext]_vars

\* C21: a transition or a catch-up in which the store fails ends with an
\* exception, not with one of the results of the handler, and leaves every row
\* as it was; a failed start-up does not serve. In every catch-up the rows
\* changed are all the selected rows or none, and a transition changes a row
\* only when it has committed.
C21_NoPartialWrites ==
    [][/\ ret'.outcome = Raised
          => /\ tasks' = tasks
             /\ ~ret'.committed
             /\ ret'.outcome \notin {NotFound, UpdatedToDone, NotYetReached, "started"}
             /\ ret'.op = "lifespan" => ~serving'
       /\ ret'.op = "lifespan"
          => /\ DOMAIN tasks' = DOMAIN tasks
             /\ {id \in DOMAIN tasks : tasks'[id] # tasks[id]}
                   \in {{}, GetDueTasks(tasks, now)}
       /\ (ret'.op = "update_task_status" /\ tasks' # tasks)
          => ret'.committed /\ ret'.outcome = UpdatedToDone]_vars

\* the store has failed in a catch-up that had written one of two selected rows
C21_Witness ==
    /\ ret.op = "lifespan"
    /\ ret.outcome = Raised
    /\ Cardinality(ret.rows) = 1
    /\ Cardinality(GetDueTasks(tasks, now)) = 2
    /\ ~serving

\* the store has failed in the transition of a task whose due date has passed
C21_WitnessTransition ==
    /\ ret.op = "update_task_status"
    /\ ret.outcome = Raised
    /\ ret.pre = PENDING
    /\ tasks[ret.id].status = PENDING
    /\ tasks[ret.id].due_date <= now

\* ------------------------------------------------------- worker sessions
\* get_celery_async_session_context: "running" holds one record for each
\* context whose engine and session are open.
WorkerOps == {"update_task_status", "worker_ready", "beat_init"}

\* create_celery_engine() and session_maker(): a new engine and a session of
\* its own for the operation that enters the context
Acquire(hs, op, id, eta) == hs \cup {[op |-> op, id |-> id, eta |-> eta]}

\* a context that closes the session and disposes the engine after the body
\* has returned, without try/finally
Finally_NoTry(hs, call, raised) == IF raised THEN hs ELSE hs \ {call}

\* finally: session.close() and engine.dispose(), whether the body has
\* returned or raised
Finally(hs, call, raised) == hs \ {call}

\* update_task_status_task(task_id) enters the context: a worker has taken a
\* ready message
UpdateTaskStatusEnter(job) ==
    /\ workerUp
    /\ job \in queue
    /\ Ready(job, now)
    /\ Cardinality({call \in running : call.op = "update_task_status"}) < MaxCalls
    /\ [op |-> "update_task_status", id |-> job.id, eta |-> job.eta] \notin running
    /\ queue' = queue \ {job}
    /\ running' = Acquire(running, "update_task_status", job.id, job.eta)
    /\ ret' = Env
    /\ UNCHANGED <<tasks, nextId, now, workerUp, serving, caughtUp, writes>>

\* the body of _update_task_status runs and the context is left: by the
\* return of "not found", by one of the two returns after the test of the due
\* date, or (raised) by an exception of the store
UpdateTaskStatusExit(call, raised) ==
    /\ call \in running
    /\ call.op = "update_task_status"
    /\ LET r == UpdateTaskStatus(tasks, call.id, now)
       IN  IF raised
           THEN /\ tasks' = tasks
                /\ ret' = Ret(call.op, call.id, PreOf(tasks, call.id),
                              Raised, FALSE, {}, 0, call.eta)
           ELSE /\ tasks' = r.tasks
                /\ ret' = Ret(call.op, call.id, PreOf(tasks, call.id),
                              r.outcome, r.committed, {}, 0, call.eta)
    /\ running' = Finally(running, call, raised)
    /\ UNCHANGED <<nextId, now, queue, workerUp, serving, caughtUp, writes>>

\* schedule_due_tasks enters the context, at worker_ready or at beat_init; the
\* handler of a signal runs it to its end inside the process that starts
ScheduleDueTasksEnter(op) ==
    /\ op \in SweepOps
    /\ \A call \in running : call.op # op
    /\ op = "worker_ready" => ~workerUp
    /\ workerUp' = (workerUp \/ op = "worker_ready")
    /\ running' = Acquire(running, op, 0, NoEta)
    /\ ret' = Env
    /\ UNCHANGED <<tasks, nextId, now, queue, serving, caughtUp, writes>>

\* the body of _schedule_due_tasks runs and the context is left: after the
\* messages of the selected tasks, after "No overdue tasks to schedule", or
\* (raised) by an exception of get_due_tasks, which schedule_due_tasks logs
ScheduleDueTasksExit(call, raised) ==
    /\ call \in running
    /\ call.op \in SweepOps
    /\ IF raised
       THEN /\ queue' = queue
            /\ ret' = Ret(call.op, 0, Absent, "error", FALSE, {}, 0, NoEta)
       ELSE /\ queue' = ScheduleDueTasks(queue, tasks, now)
            /\ ret' = Ret(call.op, 0, Absent, "", FALSE, GetDueTasks(tasks, now),
                          Cardinality(GetDueTasks(tasks, now)), NoEta)
    /\ running' = Finally(running, call, raised)
    /\ UNCHANGED <<tasks, nextId, now, workerUp, serving, caughtUp, writes>>

\* The clock stands still: a context is entered and left at any instant alike.
HandleNext ==
    \/ Lifespan
    \/ \E d \in Times : CreateTask(d)
    \/ \E id \in Ids, d \in Times : UpdateTask(id, d, UnsetStatus)
    \/ \E id \in Ids : DeleteTask(id)
    \/ \E job \in queue : UpdateTaskStatusEnter(job)
    \/ \E call \in running, raised \in BOOLEAN : UpdateTaskStatusExit(call, raised)
    \/ \E op \in SweepOps : ScheduleDueTasksEnter(op)
    \/ \E call \in running, raised \in BOOLEAN : ScheduleDueTasksExit(call, raised)

HandleSpec == Init /\ [][HandleNext]_vars

\* C24: when a transition or a sweep of the worker ends, by a return, by the
\* early return of "not found" or by an exception, the engine and the session
\* it had entered the context with are released and the other open contexts
\* are left as they are; a context is opened only by an operation of the
\* worker that starts, and no other step opens or keeps one.
C24_ScopedHandle ==
    [][/\ ret'.op \in WorkerOps
          => \E call \in running :
                /\ call.op = ret'.op
                /\ call.id = ret'.id
                /\ call.eta = ret'.eta
                /\ running' = running \ {call}
       /\ ret'.op \notin WorkerOps
          => \/ running' = running
             \/ /\ ret' = Env
                /\ \E call \in running' \ running :
                      /\ running' = running \cup {call}
                      /\ call.op \in WorkerOps]_vars

\* a transition has left the only open context by an exception
C24_Witness ==
    /\ ret.op = "update_task_status"
    /\ ret.outcome = Raised
    /\ running = {}

\* a transition has left the context by the early return of "not found"
\* while a sweep holds another
C24_WitnessNotFound ==
    /\ ret.op = "update_task_status"
    /\ ret.outcome = NotFound
    /\ Cardinality(running) = 1
    /\ \A call \in running : call.op \in SweepOps

\* a sweep has left the only open context by an exception
C24_WitnessSweep ==
    /\ ret.op \in SweepOps
    /\ ret.outcome = "error"
    /\ running = {}

\* a transition has left the context by the return of "due date not yet reached"
C24_WitnessReturn ==
    /\ ret.op = "update_task_status"
    /\ ret.outcome = NotYetReached
    /\ running = {}

\* ------------------------------------------------- persist, then schedule
\* The create and update routes in two steps: the call of the service, which
\* ends with its commit, and apply_async. "running" holds the requests between
\* the two. Rows and messages carry in "commit" the number of the write
\* request whose commit wrote the row, and for which the message was
\* submitted; no handler reads it.

\* POST /task: service.create_task has added the row and committed
CreateTaskCommit(due_date) ==
    /\ serving
    /\ writes < MaxWrites
    /\ writes' = writes + 1
    /\ nextId <= MaxTasks
    /\ Cardinality(running) < MaxCalls
    /\ tasks' = [id \in DOMAIN tasks \cup {nextId} |->
                    IF id = nextId
                    THEN [due_date |-> due_date, status |-> PENDING, commit |-> writes']
                    ELSE tasks[id]]
    /\ nextId' = nextId + 1
    /\ running' = running \cup {[op |-> "create_task", id |-> nextId,
                                  eta |-> due_date, commit |-> writes']}
    /\ ret' = Env
    /\ UNCHANGED <<now, queue, workerUp, serving, caughtUp>>

\* an update whose message goes out while its transaction is still open
UpdateTaskCommit_NoCommit(task_id, due_date, status) ==
    /\ serving
    /\ writes < MaxWrites
    /\ writes' = writes + 1
    /\ Cardinality(running) < MaxCalls
    /\ IF ~HasTask(tasks, task_id) \/ due_date = UnsetDueDate
       THEN /\ ret' = Ret("update_task", task_id, Absent, "404", FALSE, {}, 0, NoEta)
            /\ UNCHANGED <<tasks, running, caughtUp>>
       ELSE /\ tasks' = tasks
            /\ running' = running \cup {[op |-> "update_task", id |-> task_id,
                                          eta |-> due_date, commit |-> writes']}
            /\ ret' = Env
            /\ caughtUp' = caughtUp \ {task_id}
    /\ UNCHANGED <<nextId, now, queue, workerUp, serving>>

\* PUT /task/{task_id}: service.update_task has returned None (404), or has
\* written the fields of the request and committed; a request without
\* due_date ends here
UpdateTaskCommit(task_id, due_date, status) ==
    /\ serving
    /\ writes < MaxWrites
    /\ writes' = writes + 1
    /\ Cardinality(running) < MaxCalls
    /\ IF ~HasTask(tasks, task_id)
       THEN /\ ret' = Ret("update_task", task_id, Absent, "404", FALSE, {}, 0, NoEta)
            /\ UNCHANGED <<tasks, running, caughtUp>>
       ELSE /\ tasks' = [tasks EXCEPT ![task_id] =
                            [due_date |-> IF due_date = UnsetDueDate THEN @.due_date ELSE due_date,
                             status |-> IF status = UnsetStatus THEN @.status ELSE status,
                             commit |-> writes']]
            /\ IF due_date = UnsetDueDate
               THEN /\ running' = running
                    /\ ret' = Ret("update_task", task_id, Absent, "200",
                                  TRUE, {task_id}, 0, NoEta)
               ELSE /\ running' = running \cup {[op |-> "update_task", id |-> task_id,
                                                  eta |-> due_date, commit |-> writes']}
                    /\ ret' = Env
            /\ caughtUp' = caughtUp \ {task_id}
    /\ UNCHANGED <<nextId, now, queue, workerUp, serving>>

\* apply_async(args=[id], eta=eta) of the create or update route, and the
\* response
ApplyAsync(call) ==
    /\ call \in running
    /\ Cardinality(queue) < MaxQueue
    /\ queue' = queue \cup {[id |-> call.id, eta |-> call.eta, commit |-> call.commit]}
    /\ running' = running \ {call}
    /\ ret' = Ret(call.op, call.id, Absent, "200", TRUE, {call.id}, 0, call.eta)
    /\ UNCHANGED <<tasks, nextId, now, workerUp, serving, caughtUp, writes>>

PersistNext ==
    \/ Tick
    \/ \E d \in Times : CreateTaskCommit(d)
    \/ \E id \in Ids, d \in Times \cup {UnsetDueDate}, s \in TaskStatus \cup {UnsetStatus} :
          UpdateTaskCommit(id, d, s)
    \/ \E call \in running : ApplyAsync(call)
    \/ \E id \in Ids : DeleteTask(id)
    \/ \E job \in queue : UpdateTaskStatusTask(job)

PersistSpec == StoreInit /\ [][PersistNext]_vars

\* C26: when the create or update route submits its message, the row, or the
\* new due date, is committed; so a transition run for such a message finds
\* the row unless the row has been deleted, and the row it finds is the one
\* its request has committed, with the due date the message was submitted
\* for, or one that a later request has committed.
C26_PersistBeforeSchedule ==
    [][/\ (ret'.op \in {"create_task", "update_task"} /\ ret'.eta # NoEta)
          => \E job \in queue' \ queue :
                /\ job.id = ret'.id
                /\ job.eta = ret'.eta
                /\ job.id < nextId
                /\ HasTask(tasks, job.id)
                   => /\ tasks[job.id].commit >= job.commit
                      /\ tasks[job.id].commit = job.commit
                         => tasks[job.id].due_date = job.eta
       /\ ret'.op = "update_task_status"
          => \E job \in queue \ queue' :
                /\ job.id = ret'.id
                /\ job.eta = ret'.eta
                /\ job.id < nextId
                /\ ret'.outcome = NotFound <=> ~HasTask(tasks, job.id)
                /\ HasTask(tasks, job.id)
                   => /\ tasks[job.id].commit >= job.commit
                      /\ tasks[job.id].commit = job.commit
                         => tasks[job.id].due_date = job.eta]_vars

\* the message of a create request has run between the commit of an update of
\* the due date and the submission of the update's message
C26_Witness ==
    /\ ret.op = "update_task_status"
    /\ ret.outcome = NotYetReached
    /\ \E call \in running :
          /\ call.op = "update_task"
          /\ call.id = ret.id
          /\ call.eta # ret.eta
          /\ tasks[ret.id].due_date = call.eta
          /\ tasks[ret.id].commit = call.commit

\* the message of a create request has run after the row was deleted
C26_WitnessDeleted ==
    /\ ret.op = "update_task_status"
    /\ ret.outcome = NotFound
    /\ ret.id < nextId

\* the message of an update has run on the row the update has committed
C26_WitnessUpdate ==
    /\ ret.op = "update_task_status"
    /\ ret.outcome = UpdatedToDone
    /\ tasks[ret.id].commit > 1
    /\ tasks[ret.id].due_date = ret.eta
====
